---- MODULE Spec2Model ----
(***************************************************************************)
(* Ordered-association management of podcaster-backoffice-api: the        *)
(* wall_block link table, the block entity table, wallApi.OverwriteBlocks *)
(* (fetch, delete each, create each, one store call per step) and         *)
(* wallApi.FindBlocks (fetch, then one blockAdapter.Find per row).        *)
(* blockApi.OverwritePrograms / FindPrograms are the same code over the   *)
(* block_program table.                                                   *)
(***************************************************************************)
EXTENDS Integers, Sequences, FiniteSets, TLC

(* ------------------------------ bounds -------------------------------- *)
\* largest number of entries in one OrderedBlocks map
MaxDesired == 2
\* Overwrite calls the caller of the sequential scenarios issues
MaxCalls == 2

(* ------------------------------ identifiers --------------------------- *)
\* Request strings for a wall ID: two UUIDs in canonical spelling and the
\* empty string.
WallStrs == {"w1", "w2", ""}
\* Request strings for a block ID: two UUIDs in canonical (lower-case)
\* spelling, "B1" = the upper-case spelling of UUID b1, and the empty string.
BlockStrs == {"b1", "b2", "B1", ""}
\* the UUIDs of the block rows
BlockUUIDs == {"b1", "b2"}
\* display positions used in requests
Positions == {0, 1}
Writers == {"wA", "wB"}

\* uuid.Parse accepts a string iff it spells a UUID (any letter case).
IsUUID(s) == s \in {"w1", "w2", "b1", "b2", "B1", "p1", "p2", "p3", "t1", "t2", "c1", "c2", "c3", "c9"}
\* uuid.MustParse(s) followed by UUID.String(): the canonical spelling of the
\* 16-byte value; only applied where IsUUID(s).
MustParse(s) == IF s = "B1" THEN "b1" ELSE s

\* uuid.New(): an ID no earlier call has drawn; n is the number drawn so far.
New_Same(n) == IF n = 0 THEN 1 ELSE n
New_Reuse(n) == 1
New(n) == n + 1

(* ------------------------------ errors -------------------------------- *)
\* An error value is the chain of messages from the outermost fmt.Errorf
\* wrapper to the innermost error.  A result is [kind, err, step]: kind is
\* "ok", "err" (error returned) or "panic"; step is the call that ended the
\* operation.
ErrDriver == <<"driver: bad connection">>
ErrUUIDToBin == <<"Incorrect string value for function uuid_to_bin">>
ErrNilDeref == <<"invalid memory address or nil pointer dereference">>
ErrInvalidUUID == <<"uuid: Parse: invalid UUID length">>
Errorf(msg, err) == <<msg>> \o err
NoResult == [kind |-> "none", err |-> <<>>, step |-> ""]
Ok == [kind |-> "ok", err |-> <<>>, step |-> ""]
Failed(e, s) == [kind |-> "err", err |-> e, step |-> s]
Panicked(e, s) == [kind |-> "panic", err |-> e, step |-> s]

\* An error value of an Application Service operation: chain is the messages
\* from the outermost fmt.Errorf wrapper to the innermost error (a
\* ValidationErrors contributes the field and message of each element), vErrs
\* is the model.ValidationErrors value errors.As finds by unwrapping, <<>> if
\* there is none.
NoErr == [chain |-> <<>>, vErrs |-> <<>>]
StoreErr(e) == [chain |-> e, vErrs |-> <<>>]
\* ValidationError.Error(): "%v : %v" of Field and Message
ValidationErrorError(ve) == <<ve.Field, ve.Message>>
\* ValidationErrors.Error(): errors.Join of the elements, in order
RECURSIVE ValidationErrorsError(_)
ValidationErrorsError(vs) ==
    IF vs = <<>> THEN <<>>
    ELSE ValidationErrorError(Head(vs)) \o ValidationErrorsError(Tail(vs))
\* a non-empty model.ValidationErrors used as an error
ValidationErr(vs) == [chain |-> ValidationErrorsError(vs), vErrs |-> vs]
\* fmt.Errorf("msg: %w", e): the wrapper keeps e for errors.As
Wrap_Opaque(msg, e) == [chain |-> <<msg>> \o e.chain, vErrs |-> <<>>]
Wrap(msg, e) == [chain |-> <<msg>> \o e.chain, vErrs |-> e.vErrs]
\* errors.As(err, &model.ValidationErrors{})
AsValidationErrors(e) == e.vErrs # <<>>

ApiNone == [kind |-> "none", err |-> NoErr, step |-> ""]
ApiOk == [kind |-> "ok", err |-> NoErr, step |-> ""]
ApiFailed(e, s) == [kind |-> "err", err |-> e, step |-> s]
ApiPanicked(e, s) == [kind |-> "panic", err |-> StoreErr(e), step |-> s]
ApiRejected(vErrs) ==
    ApiFailed(Wrap("request was not validated", ValidationErr(vErrs)), "validation")

VARIABLES
    wall_block,     \* rows of table wall_block
    block,          \* rows of table block
    nextUUID,       \* number of association IDs uuid.New() has drawn
    scope,          \* the ID strings the callers of this scenario send
    pc,             \* per writer: "idle", "delete", "create", "done"
    wallID,         \* per writer: the wallID argument
    req,            \* per writer: req.OrderedBlocks(), a map blockID -> position
    associations,   \* per writer: the rows FindByWallID returned
    deleted,        \* per writer: the fetched rows the delete loop has passed
    toCreate,       \* per writer: keys of the map the create loop has not reached
    made,           \* per writer: rows this call has inserted
    ret,            \* per writer: what the call returned
    issued,         \* per writer: kinds of store calls this call has issued
    isolated,       \* per writer: no other Overwrite touched the same wall since this call began
    prev,           \* per writer: whether this call repeats the successful call before it, and that call's row IDs
    budget,         \* per writer: calls the caller will still issue
    fb_pc,          \* FindBlocks: "idle", "resolve", "done"
    fb_uuid,        \* FindBlocks: the uuid argument
    fb_associations,\* FindBlocks: the rows FindByWallID returned
    fb_resolved,    \* FindBlocks: the fetched rows the loop has passed
    fb_response,    \* FindBlocks: the response slice built so far / returned
    fb_ret,         \* FindBlocks: what the call returned
    fb_after,       \* FindBlocks: the undisturbed successful Overwrite its fetch followed, if any
    fb_budget,      \* FindBlocks: calls the reader will still issue
    program_tag,    \* rows of table program_tag
    tg_pc,          \* OverwriteTags: "idle", "delete", "create", "done"
    tg_programID,   \* OverwriteTags: the programID argument
    tg_tagIDs,      \* OverwriteTags: the tagIDs argument, a list
    tg_associations,\* OverwriteTags: the rows FindByProgramID returned
    tg_deleted,     \* OverwriteTags: the fetched rows the delete loop has passed
    tg_i,           \* OverwriteTags: elements of tagIDs the create loop has passed
    tg_ret,         \* OverwriteTags: what the call returned
    tg_isolated,    \* OverwriteTags: no other call wrote program_tag since this call began
    tg_budget,      \* OverwriteTags: calls the caller will still issue
    pt_del,         \* programTagAdapter.Delete: number of calls so far, the last call's argument and result
    wall,           \* rows of table wall
    program,        \* rows of table program
    nextWall,       \* number of wall IDs uuid.New() has drawn
    call,           \* the last call of an entity service: operation, arguments, result
    category,       \* rows of table category
    nextCategory,   \* number of category IDs uuid.New() has drawn
    asked,          \* per category ID: the parentID its Create was called with, while no Update has followed
    revision        \* the revision of the category adapter the build holds

wvars == <<pc, wallID, req, associations, deleted, toCreate, made, ret, issued, isolated, prev, budget>>
fbvars == <<fb_pc, fb_uuid, fb_associations, fb_resolved, fb_response, fb_ret, fb_after, fb_budget>>
tvars == <<program_tag, tg_pc, tg_programID, tg_tagIDs, tg_associations, tg_deleted, tg_i,
           tg_ret, tg_isolated, tg_budget, pt_del>>
\* the variables outside the wall/block scenarios
evars == <<wall, program, nextWall, call>>
cvars == <<category, nextCategory, asked, revision>>
xvars == <<tvars, evars, cvars>>
vars == <<wall_block, block, nextUUID, scope, wvars, fbvars, xvars>>

(* ------------------------------ stores -------------------------------- *)
\* model.Block rows the block table starts with
BlockRow(u) ==
    [ID |-> u, Name |-> (IF u = "b1" THEN "news" ELSE "sport"),
     Kind |-> "carousel", Description |-> "d"]

\* SELECT * FROM wall_block WHERE wallUUID = UUID_TO_BIN(?)
FindByWallID_None(w) == {}
FindByWallID_All(w) == wall_block
FindByWallID(w) == {r \in wall_block : r.WallID = MustParse(w)}

\* DELETE FROM wall_block WHERE UUID = UUID_TO_BIN(?)
WallBlockDelete_Keep(tbl, id) == tbl
WallBlockDelete_Wall(tbl, id) ==
    {r \in tbl : \A o \in tbl : o.ID = id => r.WallID # o.WallID}
WallBlockDelete(tbl, id) == {r \in tbl : r.ID # id}

\* INSERT INTO wall_block (UUID, wallUUID, blockUUID, position) VALUES (...)
WallBlockCreate_FK(tbl, row) ==
    IF \E b \in block : b.ID = row.BlockID THEN tbl \cup {row} ELSE tbl
WallBlockCreate(tbl, row) == tbl \cup {row}

\* WallBlockDB.FromDomainModel: three uuid.MustParse calls, any of which
\* panics on a string that is not a UUID.
FromDomainModelPanics(w, b) == ~IsUUID(w) \/ ~IsUUID(b)
FromDomainModel(id, w, b, position) ==
    [ID |-> id, WallID |-> MustParse(w), BlockID |-> MustParse(b), Position |-> position]

\* SELECT * FROM block WHERE UUID = UUID_TO_BIN(?)
BlockFind(u) == {b \in block : b.ID = u}

\* every OrderedBlocks map of at most MaxDesired entries
Requests ==
    UNION {[S -> Positions] : S \in {T \in SUBSET scope.blocks : Cardinality(T) <= MaxDesired}}

EmptyReq == [s \in {} |-> 0]
NoCall == [again |-> FALSE, made |-> {}]

(* ------------------------------ Init ---------------------------------- *)
InitCommon ==
    /\ wall_block = {}
    /\ block = {BlockRow(u) : u \in BlockUUIDs}
    /\ nextUUID = 0
    /\ pc = [p \in Writers |-> "idle"]
    /\ wallID = [p \in Writers |-> ""]
    /\ req = [p \in Writers |-> EmptyReq]
    /\ associations = [p \in Writers |-> {}]
    /\ deleted = [p \in Writers |-> {}]
    /\ toCreate = [p \in Writers |-> {}]
    /\ made = [p \in Writers |-> {}]
    /\ ret = [p \in Writers |-> NoResult]
    /\ issued = [p \in Writers |-> {}]
    /\ isolated = [p \in Writers |-> FALSE]
    /\ prev = [p \in Writers |-> NoCall]
    /\ fb_pc = "idle"
    /\ fb_uuid = ""
    /\ fb_associations = {}
    /\ fb_resolved = {}
    /\ fb_response = <<>>
    /\ fb_ret = NoResult
    /\ fb_after = [valid |-> FALSE, req |-> EmptyReq, again |-> FALSE]
    /\ fb_budget = 1
    /\ program_tag = {}
    /\ tg_pc = "idle"
    /\ tg_programID = ""
    /\ tg_tagIDs = <<>>
    /\ tg_associations = {}
    /\ tg_deleted = {}
    /\ tg_i = 0
    /\ tg_ret = NoResult
    /\ tg_isolated = FALSE
    /\ tg_budget = MaxCalls
    /\ pt_del = [n |-> 0, id |-> 0, ret |-> NoResult]
    /\ wall = {}
    /\ program = {[ID |-> "p1", Name |-> "X", Description |-> "d"]}
    /\ nextWall = 0
    /\ call = [seq |-> 0, op |-> "", id |-> "", name |-> "", description |-> "",
               parentID |-> "", ret |-> ApiNone, response |-> {}]
    /\ category = {}
    /\ nextCategory = 0
    /\ asked = {}

\* one caller issuing Overwrite calls one after the other with well-formed
\* block IDs, and one reader
Init ==
    /\ InitCommon
    /\ revision = "category.go"
    /\ scope = [walls |-> {"w1", ""}, blocks |-> {"b1", "b2"}]
    /\ budget = [p \in Writers |-> IF p = "wA" THEN MaxCalls ELSE 0]

\* two callers, one Overwrite call each on the same wall, and one reader
InitConc ==
    /\ InitCommon
    /\ revision = "category.go"
    /\ scope = [walls |-> {"w1"}, blocks |-> {"b1", "b2"}]
    /\ budget = [p \in Writers |-> 1]

\* one caller issuing Overwrite calls one after the other with block IDs in
\* either spelling or empty, and one reader
InitIDs ==
    /\ InitCommon
    /\ revision = "category.go"
    /\ scope = [walls |-> {"w1"}, blocks |-> {"b1", "B1", ""}]
    /\ budget = [p \in Writers |-> IF p = "wA" THEN MaxCalls ELSE 0]

\* one caller issuing OverwriteTags calls one after the other on one program,
\* and a caller of programTagAdapter.Delete
InitTags ==
    /\ InitCommon
    /\ revision = "category.go"
    /\ scope = [walls |-> {}, blocks |-> {}]
    /\ budget = [p \in Writers |-> 0]

\* callers of the wall and program services, one call at a time
InitEntity ==
    /\ InitCommon
    /\ revision = "category.go"
    /\ scope = [walls |-> {}, blocks |-> {}]
    /\ budget = [p \in Writers |-> 0]

\* one caller issuing two Overwrite calls one after the other on walls w1 and
\* w2, and one reader of either wall at any moment
InitRead ==
    /\ InitCommon
    /\ revision = "category.go"
    /\ scope = [walls |-> {"w1", "w2"}, blocks |-> {"b1", "b2"}]
    /\ budget = [p \in Writers |-> IF p = "wA" THEN 2 ELSE 0]

\* two callers of Overwrite, two calls each, on walls w1 and w2 in any
\* combination, with requests of at most one block
InitWalls ==
    /\ InitCommon
    /\ revision = "category.go"
    /\ scope = [walls |-> {"w1", "w2"}, blocks |-> {"b1"}]
    /\ budget = [p \in Writers |-> 2]

\* one caller that issues Overwrite(w1, D) and repeats it while it fails; the
\* store fails at most MaxCalls - 1 times
InitRetry ==
    /\ InitCommon
    /\ revision = "category.go"
    /\ scope = [walls |-> {"w1"}, blocks |-> {"b1", "b2"}]
    /\ budget = [p \in Writers |-> IF p = "wA" THEN MaxCalls ELSE 0]

\* one caller issuing two OverwriteBlocks calls on wall w1, and callers of wallApi.Create,
\* wallApi.Delete and blockApi.Delete
InitDelete ==
    /\ InitCommon
    /\ revision = "category.go"
    /\ scope = [walls |-> {"w1"}, blocks |-> {"b1", "b2"}]
    /\ budget = [p \in Writers |-> IF p = "wA" THEN 2 ELSE 0]

\* The source holds two revisions of the category adapter and does not say
\* which one is compiled: mysql/category.go:1-150 and part_016:129-273
Revisions == {"category.go", "part_016"}

\* callers of the category service, one call at a time, on either revision of
\* the adapter
InitCategory ==
    /\ InitCommon
    /\ revision \in Revisions
    /\ scope = [walls |-> {}, blocks |-> {}]
    /\ budget = [p \in Writers |-> 0]

(* ------------------------------ OverwriteBlocks ----------------------- *)
InProgress(q) == pc[q] \in {"delete", "create"}
SameWall(q, w) == IsUUID(wallID[q]) /\ IsUUID(w) /\ MustParse(wallID[q]) = MustParse(w)

\* where the function goes after the fetch and after each loop iteration
AfterDelete_Early(rest, d) ==
    IF DOMAIN d # {} THEN "create" ELSE IF rest # {} THEN "delete" ELSE "done"
AfterDelete(rest, d) ==
    IF rest # {} THEN "delete" ELSE IF DOMAIN d # {} THEN "create" ELSE "done"
AfterCreate(rest) == IF rest # {} THEN "create" ELSE "done"
\* if err != nil { return err }: the call ends, whatever loop it was in
ReturnErr_Continue(loop) == loop
ReturnErr(loop) == "done"

\* wall.go:208-213: the call and its first store call, FindByWallID
OverwriteBlocksFetch(p, w, d, fail) ==
    /\ pc[p] \in {"idle", "done"}
    /\ budget[p] > 0
    /\ budget' = [budget EXCEPT ![p] = @ - 1]
    /\ prev' = [prev EXCEPT ![p] =
            IF ret[p].kind = "ok" /\ wallID[p] = w /\ req[p] = d
            THEN [again |-> TRUE, made |-> {r.ID : r \in made[p]}]
            ELSE NoCall]
    /\ wallID' = [wallID EXCEPT ![p] = w]
    /\ req' = [req EXCEPT ![p] = d]
    /\ deleted' = [deleted EXCEPT ![p] = {}]
    /\ made' = [made EXCEPT ![p] = {}]
    /\ issued' = [issued EXCEPT ![p] = {"fetch"}]
    /\ isolated' = [q \in Writers |->
            IF q = p THEN ~(\E o \in Writers \ {p} : InProgress(o) /\ SameWall(o, w))
            ELSE IF pc[q] # "idle" /\ SameWall(q, w) THEN FALSE
            ELSE isolated[q]]
    /\ IF fail \/ ~IsUUID(w)
       THEN /\ pc' = [pc EXCEPT ![p] = "done"]
            /\ ret' = [ret EXCEPT ![p] = Failed(IF fail THEN ErrDriver ELSE ErrUUIDToBin, "fetch")]
            /\ associations' = [associations EXCEPT ![p] = {}]
            /\ toCreate' = [toCreate EXCEPT ![p] = {}]
       ELSE /\ pc' = [pc EXCEPT ![p] = AfterDelete(FindByWallID(w), d)]
            /\ ret' = [ret EXCEPT ![p] = IF FindByWallID(w) = {} /\ DOMAIN d = {} THEN Ok ELSE NoResult]
            /\ associations' = [associations EXCEPT ![p] = FindByWallID(w)]
            /\ toCreate' = [toCreate EXCEPT ![p] = DOMAIN d]
    /\ UNCHANGED <<wall_block, block, nextUUID, scope, fbvars, xvars>>

\* wall.go:216-220: one iteration of the delete loop
OverwriteBlocksDelete(p, a, fail) ==
    /\ pc[p] = "delete"
    /\ a \in associations[p] \ deleted[p]
    /\ issued' = [issued EXCEPT ![p] = @ \cup {"delete"}]
    /\ IF fail
       THEN /\ pc' = [pc EXCEPT ![p] = ReturnErr("delete")]
            /\ ret' = [ret EXCEPT ![p] = Failed(ErrDriver, "delete")]
            /\ UNCHANGED <<wall_block, deleted>>
       ELSE /\ wall_block' = WallBlockDelete(wall_block, a.ID)
            /\ deleted' = [deleted EXCEPT ![p] = @ \cup {a}]
            /\ pc' = [pc EXCEPT ![p] = AfterDelete(associations[p] \ (deleted[p] \cup {a}), req[p])]
            /\ ret' = [ret EXCEPT ![p] =
                    IF associations[p] = deleted[p] \cup {a} /\ DOMAIN req[p] = {}
                    THEN Ok ELSE NoResult]
    /\ UNCHANGED <<block, nextUUID, scope, wallID, req, associations, toCreate, made,
                   isolated, prev, budget, fbvars, xvars>>

\* wall.go:223-236: one iteration of the create loop (map order is arbitrary)
OverwriteBlocksCreate(p, blockID, fail) ==
    /\ pc[p] = "create"
    /\ blockID \in toCreate[p]
    /\ nextUUID' = nextUUID + 1
    /\ IF FromDomainModelPanics(wallID[p], blockID)
       THEN /\ pc' = [pc EXCEPT ![p] = "done"]
            /\ ret' = [ret EXCEPT ![p] = Panicked(ErrInvalidUUID, "create")]
            /\ UNCHANGED <<wall_block, toCreate, made, issued>>
       ELSE /\ issued' = [issued EXCEPT ![p] = @ \cup {"create"}]
            /\ IF fail
               THEN /\ pc' = [pc EXCEPT ![p] = ReturnErr("create")]
                    /\ ret' = [ret EXCEPT ![p] =
                            Failed(Errorf("error occurred while creating wall block", ErrDriver), "create")]
                    /\ UNCHANGED <<wall_block, toCreate, made>>
               ELSE /\ wall_block' = WallBlockCreate(wall_block,
                            FromDomainModel(New(nextUUID), wallID[p], blockID, req[p][blockID]))
                    /\ made' = [made EXCEPT ![p] = @ \cup
                            {FromDomainModel(New(nextUUID), wallID[p], blockID, req[p][blockID])}]
                    /\ toCreate' = [toCreate EXCEPT ![p] = @ \ {blockID}]
                    /\ pc' = [pc EXCEPT ![p] = AfterCreate(toCreate[p] \ {blockID})]
                    /\ ret' = [ret EXCEPT ![p] = IF toCreate[p] = {blockID} THEN Ok ELSE NoResult]
    /\ UNCHANGED <<block, scope, wallID, req, associations, deleted, isolated, prev, budget, fbvars, xvars>>

(* ------------------------------ FindBlocks ---------------------------- *)
\* one element of the response slice: the block's fields and the row's position
WallBlocksResponse_NoPosition(b, a) ==
    [ID |-> b.ID, Name |-> b.Name, Kind |-> b.Kind, Description |-> b.Description,
     Position |-> 0]
WallBlocksResponse(b, a) ==
    [ID |-> b.ID, Name |-> b.Name, Kind |-> b.Kind, Description |-> b.Description,
     Position |-> a.Position]

\* wall.go:49 and wall.go:57: the slice returned together with an error
ErrResponse_Partial(response) == response
ErrResponse(response) == <<>>

\* the Overwrite calls whose successful, undisturbed return a fetch of wall w follows
Settled(w) == {p \in Writers : pc[p] = "done" /\ ret[p].kind = "ok" /\ isolated[p] /\ SameWall(p, w)}
\* call p repeats the successful call before it
Again(p) == prev[p].again

\* wall.go:45-50: the call and its first store call, FindByWallID
FindBlocksFetch(u, fail) ==
    /\ fb_pc \in {"idle", "done"}
    /\ fb_budget > 0
    /\ fb_budget' = fb_budget - 1
    /\ fb_uuid' = u
    /\ fb_resolved' = {}
    /\ fb_response' = <<>>
    /\ fb_after' = IF Settled(u) # {}
                   THEN [valid |-> TRUE, req |-> req[CHOOSE p \in Settled(u) : TRUE],
                         again |-> Again(CHOOSE p \in Settled(u) : TRUE)]
                   ELSE [valid |-> FALSE, req |-> EmptyReq, again |-> FALSE]
    /\ IF fail \/ ~IsUUID(u)
       THEN /\ fb_pc' = "done"
            /\ fb_ret' = Failed(IF fail THEN ErrDriver ELSE ErrUUIDToBin, "fetch")
            /\ fb_associations' = {}
       ELSE /\ fb_pc' = IF FindByWallID(u) = {} THEN "done" ELSE "resolve"
            /\ fb_ret' = IF FindByWallID(u) = {} THEN Ok ELSE NoResult
            /\ fb_associations' = FindByWallID(u)
    /\ UNCHANGED <<wall_block, block, nextUUID, scope, wvars, xvars>>

\* wall.go:53-72: one iteration of the loop; blockAdapter.Find returns
\* (nil, nil) when no row matches, and block.ID then dereferences nil
FindBlocksResolve(a, fail) ==
    /\ fb_pc = "resolve"
    /\ a \in fb_associations \ fb_resolved
    /\ IF fail
       THEN /\ fb_pc' = "done"
            /\ fb_ret' = Failed(ErrDriver, "find")
            /\ fb_response' = ErrResponse(fb_response)
            /\ UNCHANGED fb_resolved
       ELSE IF BlockFind(a.BlockID) = {}
       THEN /\ fb_pc' = "done"
            /\ fb_ret' = Panicked(ErrNilDeref, "find")
            /\ fb_response' = <<>>
            /\ UNCHANGED fb_resolved
       ELSE /\ fb_response' = Append(fb_response,
                    WallBlocksResponse(CHOOSE b \in BlockFind(a.BlockID) : TRUE, a))
            /\ fb_resolved' = fb_resolved \cup {a}
            /\ fb_pc' = IF fb_associations = fb_resolved \cup {a} THEN "done" ELSE "resolve"
            /\ fb_ret' = IF fb_associations = fb_resolved \cup {a} THEN Ok ELSE NoResult
    /\ UNCHANGED <<wall_block, block, nextUUID, scope, wvars, fb_uuid, fb_associations,
                   fb_after, fb_budget, xvars>>

(* ------------------------------ block entity -------------------------- *)
\* blockApi.Delete -> blockAdapter.Delete: removes the block row only
BlockDelete(u) ==
    /\ \E b \in block : b.ID = u
    /\ block' = {b \in block : b.ID # u}
    /\ UNCHANGED <<wall_block, nextUUID, scope, wvars, fbvars, xvars>>

(* ------------------------------ program_tag --------------------------- *)
\* Request strings for a program ID and for a tag ID
ProgramStrs == {"p1"}
TagStrs == {"t1", "t2"}
\* every tagIDs list of at most MaxDesired elements; a list may repeat an ID
TagLists == UNION {[1..n -> TagStrs] : n \in 0..MaxDesired}

\* SELECT * FROM program_tag WHERE programUUID = UUID_TO_BIN(?)
FindByProgramID(programID) == {r \in program_tag : r.ProgramID = MustParse(programID)}

\* DELETE FROM program_tag WHERE UUID = UUID_TO_BIN(?)
ProgramTagDelete_Program(tbl, id) ==
    {r \in tbl : \A o \in tbl : o.ID = id => r.ProgramID # o.ProgramID}
ProgramTagDelete(tbl, id) == {r \in tbl : r.ID # id}

\* INSERT INTO program_tag (UUID, programUUID, tagUUID) VALUES (...)
ProgramTagCreate(tbl, row) == tbl \cup {row}

\* ProgramTagDB.FromDomainModel: three uuid.MustParse calls
ProgramTagFromDomainModelPanics(programID, tagID) == ~IsUUID(programID) \/ ~IsUUID(tagID)
ProgramTagFromDomainModel(id, programID, tagID) ==
    [ID |-> id, ProgramID |-> MustParse(programID), TagID |-> MustParse(tagID)]

\* where OverwriteTags goes after the fetch and after each delete
AfterTagDelete(rest, tagIDs) ==
    IF rest # {} THEN "delete" ELSE IF Len(tagIDs) > 0 THEN "create" ELSE "done"

\* program.go:484-490: the call and its first store call, FindByProgramID
OverwriteTagsFetch(programID, tagIDs, fail) ==
    /\ tg_pc \in {"idle", "done"}
    /\ tg_budget > 0
    /\ tg_budget' = tg_budget - 1
    /\ tg_programID' = programID
    /\ tg_tagIDs' = tagIDs
    /\ tg_deleted' = {}
    /\ tg_i' = 0
    /\ tg_isolated' = TRUE
    /\ IF fail \/ ~IsUUID(programID)
       THEN /\ tg_pc' = "done"
            /\ tg_ret' = Failed(IF fail THEN ErrDriver ELSE ErrUUIDToBin, "fetch")
            /\ tg_associations' = {}
       ELSE /\ tg_pc' = AfterTagDelete(FindByProgramID(programID), tagIDs)
            /\ tg_ret' = IF FindByProgramID(programID) = {} /\ Len(tagIDs) = 0 THEN Ok ELSE NoResult
            /\ tg_associations' = FindByProgramID(programID)
    /\ UNCHANGED <<wall_block, block, nextUUID, scope, wvars, fbvars, program_tag, pt_del, evars, cvars>>

\* program.go:492-497: one iteration of the delete loop
OverwriteTagsDelete(a, fail) ==
    /\ tg_pc = "delete"
    /\ a \in tg_associations \ tg_deleted
    /\ IF fail
       THEN /\ tg_pc' = "done"
            /\ tg_ret' = Failed(ErrDriver, "delete")
            /\ UNCHANGED <<program_tag, tg_deleted>>
       ELSE /\ program_tag' = ProgramTagDelete(program_tag, a.ID)
            /\ tg_deleted' = tg_deleted \cup {a}
            /\ tg_pc' = AfterTagDelete(tg_associations \ (tg_deleted \cup {a}), tg_tagIDs)
            /\ tg_ret' = IF tg_associations = tg_deleted \cup {a} /\ Len(tg_tagIDs) = 0
                         THEN Ok ELSE NoResult
    /\ UNCHANGED <<wall_block, block, nextUUID, scope, wvars, fbvars, tg_programID, tg_tagIDs,
                   tg_associations, tg_i, tg_isolated, tg_budget, pt_del, evars, cvars>>

\* program.go:499-511: one iteration of the create loop, in list order
OverwriteTagsCreate(fail) ==
    /\ tg_pc = "create"
    /\ tg_i < Len(tg_tagIDs)
    /\ nextUUID' = nextUUID + 1
    /\ IF ProgramTagFromDomainModelPanics(tg_programID, tg_tagIDs[tg_i + 1])
       THEN /\ tg_pc' = "done"
            /\ tg_ret' = Panicked(ErrInvalidUUID, "create")
            /\ UNCHANGED <<program_tag, tg_i>>
       ELSE IF fail
       THEN /\ tg_pc' = "done"
            /\ tg_ret' = Failed(Errorf("error occurred while creating program tag", ErrDriver), "create")
            /\ UNCHANGED <<program_tag, tg_i>>
       ELSE /\ program_tag' = ProgramTagCreate(program_tag,
                    ProgramTagFromDomainModel(New(nextUUID), tg_programID, tg_tagIDs[tg_i + 1]))
            /\ tg_i' = tg_i + 1
            /\ tg_pc' = IF tg_i + 1 = Len(tg_tagIDs) THEN "done" ELSE "create"
            /\ tg_ret' = IF tg_i + 1 = Len(tg_tagIDs) THEN Ok ELSE NoResult
    /\ UNCHANGED <<wall_block, block, scope, wvars, fbvars, tg_programID, tg_tagIDs,
                   tg_associations, tg_deleted, tg_isolated, tg_budget, pt_del, evars, cvars>>

\* the association IDs the caller of Delete sends: the ID of a stored row, the
\* ID of its previous call, or 0, which uuid.New() never draws
DeleteIDs == {0, pt_del.id} \cup {r.ID : r \in program_tag}

\* program_tag.go:42-53: programTagAdapter.Delete called with an association ID
ProgramTagAdapterDelete(id, fail) ==
    /\ pt_del.n < MaxCalls
    /\ pt_del' = [n |-> pt_del.n + 1, id |-> id, ret |-> IF fail THEN Failed(ErrDriver, "delete") ELSE Ok]
    /\ program_tag' = IF fail THEN program_tag ELSE ProgramTagDelete(program_tag, id)
    /\ tg_isolated' = FALSE
    /\ UNCHANGED <<wall_block, block, nextUUID, scope, wvars, fbvars, tg_pc, tg_programID,
                   tg_tagIDs, tg_associations, tg_deleted, tg_i, tg_ret, tg_budget, evars, cvars>>

NextTags ==
    \/ \E programID \in ProgramStrs, tagIDs \in TagLists, fail \in BOOLEAN :
          OverwriteTagsFetch(programID, tagIDs, fail)
    \/ \E fail \in BOOLEAN : \E a \in tg_associations : OverwriteTagsDelete(a, fail)
    \/ \E fail \in BOOLEAN : OverwriteTagsCreate(fail)
    \/ \E id \in DeleteIDs, fail \in BOOLEAN : ProgramTagAdapterDelete(id, fail)

(* ------------------------------ entity services ----------------------- *)
\* the IDs uuid.New() gives to walls, in the order drawn
WallUUIDs == <<"w1", "w2">>
\* Request strings for a wall ID, a name and a description
WallIDStrs == {"", "w1", "w2"}
NameStrs == {"", "X", "Y"}
DescriptionStrs == {"", "d", "e"}

\* if value == "" { vErrs = append(vErrs, ValidationError{field, message}) }
Required(field, value, message) ==
    IF value = "" THEN <<[Field |-> field, Message |-> message]>> ELSE <<>>
\* wall.go:105-114
createWallRequestValidation_First(name, description) ==
    IF name = "" THEN Required("name", name, "is required")
    ELSE Required("description", description, "is required")
createWallRequestValidation(name, description) == Required("name", name, "is required") \o Required("description", description, "is required")
\* wall.go:143-149
updateWallRequestValidation(uuid, name, description) ==
    Required("uuid", uuid, "cannot be empty")
\* program.go:264-274
createProgramRequestValidation_NameOnly(name, description) == Required("name", name, "is required")
createProgramRequestValidation(name, description) == Required("name", name, "is required") \o Required("description", description, "is required")
\* program.go:301-313
updateProgramRequestValidation(uuid, name, description) ==
    Required("uuid", uuid, "cannot be empty") \o Required("name", name, "cannot be empty")
        \o Required("description", description, "cannot be empty")

\* sql.NullString{String: s, Valid: s != ""}
NullString(s) == [String |-> s, Valid |-> s # ""]
\* COALESCE(:field, field): the bound value unless it is NULL
COALESCE_Write(n, old) == n.String
COALESCE(n, old) == IF n.Valid THEN n.String ELSE old

\* INSERT INTO wall (UUID, name, description) VALUES (...)
WallAdapterCreate(tbl, id, name, description) ==
    tbl \cup {[ID |-> MustParse(id), Name |-> NullString(name).String,
               Description |-> NullString(description).String]}
\* UPDATE wall SET name = COALESCE(:name, name), description = COALESCE(:description, description)
\* WHERE UUID = UUID_TO_BIN(:UUID)   (the program table has the same statement)
WallAdapterUpdate(tbl, uuid, name, description) ==
    {IF r.ID = MustParse(uuid)
     THEN [r EXCEPT !.Name = COALESCE(NullString(name), @),
                    !.Description = COALESCE(NullString(description), @)]
     ELSE r : r \in tbl}
\* SELECT * FROM wall WHERE UUID = UUID_TO_BIN(?)
WallAdapterFind(tbl, uuid) == {r \in tbl : r.ID = MustParse(uuid)}
\* DELETE FROM wall WHERE UUID = UUID_TO_BIN(?)
WallAdapterDelete_All(tbl, uuid) == {}
WallAdapterDelete(tbl, uuid) == {r \in tbl : r.ID # MustParse(uuid)}
\* pkg.WallResponse
WallResponse(r) == [ID |-> r.ID, Name |-> r.Name, Description |-> r.Description]

\* the record of a call: seq alternates with every call
Call(op, id, name, description, parentID, r, response) ==
    [seq |-> 1 - call.seq, op |-> op, id |-> id, name |-> name, description |-> description,
     parentID |-> parentID, ret |-> r, response |-> response]

\* wall.go:79-101: wallApi.Create
WallCreate(name, description, fail) ==
    /\ nextWall < Len(WallUUIDs)
    /\ IF Len(createWallRequestValidation(name, description)) > 0
       THEN /\ call' = Call("WallCreate", "", name, description, "",
                        ApiRejected(createWallRequestValidation(name, description)), {})
            /\ UNCHANGED <<wall, nextWall>>
       ELSE /\ nextWall' = nextWall + 1
            /\ IF fail
               THEN /\ call' = Call("WallCreate", "", name, description, "",
                        ApiFailed(Wrap("error occurred while creating wall", StoreErr(ErrDriver)), "create"), {})
                    /\ UNCHANGED wall
               ELSE /\ wall' = WallAdapterCreate(wall, WallUUIDs[nextWall + 1], name, description)
                    /\ call' = Call("WallCreate", WallUUIDs[nextWall + 1], name, description, "", ApiOk, {})
    /\ UNCHANGED <<wall_block, block, nextUUID, scope, wvars, fbvars, tvars, program, cvars>>

\* wall.go:118-139: wallApi.Update
WallUpdate(uuid, name, description, fail) ==
    /\ IF Len(updateWallRequestValidation(uuid, name, description)) > 0
       THEN /\ call' = Call("WallUpdate", uuid, name, description, "",
                        ApiRejected(updateWallRequestValidation(uuid, name, description)), {})
            /\ UNCHANGED wall
       ELSE IF ~IsUUID(uuid)
       THEN /\ call' = Call("WallUpdate", uuid, name, description, "",
                        ApiPanicked(ErrInvalidUUID, "update"), {})
            /\ UNCHANGED wall
       ELSE IF fail
       THEN /\ call' = Call("WallUpdate", uuid, name, description, "",
                        ApiFailed(Wrap("error occurred while updating wall", StoreErr(ErrDriver)), "update"), {})
            /\ UNCHANGED wall
       ELSE /\ wall' = WallAdapterUpdate(wall, uuid, name, description)
            /\ call' = Call("WallUpdate", uuid, name, description, "", ApiOk, {})
    /\ UNCHANGED <<wall_block, block, nextUUID, scope, wvars, fbvars, tvars, program, nextWall, cvars>>

\* wall.go:153-170: wallApi.Find; wallAdapter.Find returns (nil, nil) when no
\* row matches, and wall.ID then dereferences nil
WallFind(uuid, fail) ==
    /\ call' =
         IF fail \/ ~IsUUID(uuid)
         THEN Call("WallFind", uuid, "", "", "",
                  ApiFailed(Wrap("error occurred while finding wall",
                                 StoreErr(IF fail THEN ErrDriver ELSE ErrUUIDToBin)), "find"), {})
         ELSE IF WallAdapterFind(wall, uuid) = {}
         THEN Call("WallFind", uuid, "", "", "", ApiPanicked(ErrNilDeref, "find"), {})
         ELSE Call("WallFind", uuid, "", "", "", ApiOk,
                  {WallResponse(r) : r \in WallAdapterFind(wall, uuid)})
    /\ UNCHANGED <<wall_block, block, nextUUID, scope, wvars, fbvars, tvars, wall, program, nextWall, cvars>>

\* the IDs uuid.New() gives to programs, by the number of IDs drawn before
ProgramUUIDs == <<"p2", "p3">>
\* program.go:241-260: programApi.Create; uuid.New() is the generator that
\* wallApi.Create draws from, INSERT INTO program has the columns of wall
ProgramCreate(name, description, fail) ==
    /\ nextWall < Len(ProgramUUIDs)
    /\ IF Len(createProgramRequestValidation(name, description)) > 0
       THEN /\ call' = Call("ProgramCreate", "", name, description, "",
                        ApiRejected(createProgramRequestValidation(name, description)), {})
            /\ UNCHANGED <<program, nextWall>>
       ELSE /\ nextWall' = nextWall + 1
            /\ IF fail
               THEN /\ call' = Call("ProgramCreate", "", name, description, "",
                        ApiFailed(Wrap("error occurred while creating program", StoreErr(ErrDriver)), "create"), {})
                    /\ UNCHANGED program
               ELSE /\ program' = WallAdapterCreate(program, ProgramUUIDs[nextWall + 1], name, description)
                    /\ call' = Call("ProgramCreate", ProgramUUIDs[nextWall + 1], name, description, "", ApiOk, {})
    /\ UNCHANGED <<wall_block, block, nextUUID, scope, wvars, fbvars, tvars, wall, cvars>>

\* program.go:278-297: programApi.Update
ProgramUpdate(uuid, name, description, fail) ==
    /\ IF Len(updateProgramRequestValidation(uuid, name, description)) > 0
       THEN /\ call' = Call("ProgramUpdate", uuid, name, description, "",
                        ApiRejected(updateProgramRequestValidation(uuid, name, description)), {})
            /\ UNCHANGED program
       ELSE IF ~IsUUID(uuid)
       THEN /\ call' = Call("ProgramUpdate", uuid, name, description, "",
                        ApiPanicked(ErrInvalidUUID, "update"), {})
            /\ UNCHANGED program
       ELSE IF fail
       THEN /\ call' = Call("ProgramUpdate", uuid, name, description, "",
                        ApiFailed(Wrap("error occurred while updating program", StoreErr(ErrDriver)), "update"), {})
            /\ UNCHANGED program
       ELSE /\ program' = WallAdapterUpdate(program, uuid, name, description)
            /\ call' = Call("ProgramUpdate", uuid, name, description, "", ApiOk, {})
    /\ UNCHANGED <<wall_block, block, nextUUID, scope, wvars, fbvars, tvars, wall, nextWall, cvars>>

\* wall.go:198-204: wallApi.Delete; the one store call is wallAdapter.Delete
WallDelete(uuid, fail) ==
    /\ IF fail \/ ~IsUUID(uuid)
       THEN /\ call' = Call("WallDelete", uuid, "", "", "",
                        ApiFailed(Wrap("error occurred while deleting wall",
                                       StoreErr(IF fail THEN ErrDriver ELSE ErrUUIDToBin)), "delete"), {})
            /\ UNCHANGED wall
       ELSE /\ wall' = WallAdapterDelete(wall, uuid)
            /\ call' = Call("WallDelete", uuid, "", "", "", ApiOk, {})
    /\ UNCHANGED <<wall_block, block, nextUUID, scope, wvars, fbvars, tvars, program, nextWall, cvars>>

NextEntity ==
    \/ \E name \in NameStrs, description \in DescriptionStrs, fail \in BOOLEAN :
          WallCreate(name, description, fail)
    \/ \E uuid \in WallIDStrs, name \in NameStrs, description \in DescriptionStrs, fail \in BOOLEAN :
          WallUpdate(uuid, name, description, fail)
    \/ \E uuid \in WallIDStrs, fail \in BOOLEAN : WallFind(uuid, fail)
    \/ \E uuid \in ProgramStrs \cup {""}, name \in NameStrs, description \in DescriptionStrs,
          fail \in BOOLEAN : ProgramUpdate(uuid, name, description, fail)
    \/ \E name \in {"", "X"}, description \in {"", "d"}, fail \in BOOLEAN :
          ProgramCreate(name, description, fail)

(* ------------------------------ category ------------------------------ *)
\* uuid.Nil, the zero value of uuid.UUID, in the spelling of UUID.String()
Nil == "00000000-0000-0000-0000-000000000000"
\* the IDs uuid.New() gives to categories, in the order drawn
CategoryUUIDs == <<"c1", "c2">>
\* Request strings for a category ID and for a parent ID: empty, the UUID c9
\* of no category, and the IDs drawn so far
CategoryStrs == {"", "c9"} \cup {CategoryUUIDs[i] : i \in 1..nextCategory}
\* Request strings of Create and of Update for name and description (an
\* Update supplies both or neither)
CreateStrs == [name : {"", "X"}, description : {"", "d"}]
UpdateStrs == {[name |-> "", description |-> ""], [name |-> "Y", description |-> "e"]}

\* part_008:81-90
createCategoryRequestValidation(name, description) ==
    Required("name", name, "is required") \o Required("description", description, "is required")
\* part_008:130-136
updateCategoryRequestValidation(uuid) == Required("uuid", uuid, "cannot be empty")

\* model.Category.Parent as Create and Update build it: a pointer, here the
\* set of the IDs it points to ({} = nil)
CreateParent(parentID) == {parentID}
UpdateParent(parentID) == IF parentID # "" THEN {parentID} ELSE {}
\* SQL NULL in column parentUUID
Null == "NULL"
\* CategoryDB.FromDomainModel. category.go:142-150: uuid.MustParse on the ID
\* and on a non-empty parent ID. part_016:264-273: uuid.MustParse on the ID,
\* and domain.Parent.ID is read without a nil check
CategoryFromDomainModelNilDeref(parent) == revision = "part_016" /\ parent = {}
CategoryFromDomainModelPanics(id, parent) ==
    \/ ~IsUUID(id)
    \/ CategoryFromDomainModelNilDeref(parent)
    \/ revision = "category.go" /\ \E x \in parent : x # "" /\ ~IsUUID(x)
\* db.Name and db.Description: sql.NullString{Valid: s != ""} in category.go,
\* a plain string (never NULL) in part_016
CategoryString(s) == IF revision = "part_016" THEN [String |-> s, Valid |-> TRUE] ELSE NullString(s)
\* db.ParentID: uuid.Nil unless Parent is set and its ID is not empty in
\* category.go; sql.NullString{Valid: Parent.ID != ""} in part_016
CategoryFromDomainModelParent(parent) ==
    IF parent = {} \/ parent = {""}
    THEN IF revision = "part_016" THEN Null ELSE Nil
    ELSE IF revision = "part_016" THEN CHOOSE x \in parent : TRUE
         ELSE MustParse(CHOOSE x \in parent : TRUE)
\* NULLIF(a, b): NULL if a = b, else a
NULLIF(a, b) == [String |-> a, Valid |-> a # b]

\* INSERT INTO category (UUID, name, description, parentUUID)
\*   VALUES (UUID_TO_BIN(:UUID), :name, :description, UUID_TO_BIN(:parentUUID))
CategoryAdapterCreate_FK(tbl, id, name, description, parent) ==
    IF \E r \in tbl : r.ID = CategoryFromDomainModelParent(parent)
    THEN tbl \cup {[ID |-> MustParse(id), Name |-> CategoryString(name).String,
                    Description |-> CategoryString(description).String,
                    ParentID |-> CategoryFromDomainModelParent(parent)]}
    ELSE tbl
CategoryAdapterCreate(tbl, id, name, description, parent) ==
    tbl \cup {[ID |-> MustParse(id), Name |-> CategoryString(name).String,
               Description |-> CategoryString(description).String,
               ParentID |-> CategoryFromDomainModelParent(parent)]}
\* UPDATE category SET name = COALESCE(:name, name),
\*   description = COALESCE(:description, description), parentUUID = ...
\* WHERE UUID = UUID_TO_BIN(:UUID), where parentUUID is set to
\*   COALESCE(NULLIF(UUID_TO_BIN(:parentUUID), UUID_TO_BIN(Nil)), parentUUID)
\* in category.go:58-81 and to UUID_TO_BIN(:parentUUID) in part_016:183-203
CategoryAdapterUpdate(tbl, uuid, name, description, parent) ==
    {IF r.ID = MustParse(uuid)
     THEN [r EXCEPT !.Name = COALESCE(CategoryString(name), @),
                    !.Description = COALESCE(CategoryString(description), @),
                    !.ParentID = IF revision = "part_016"
                                 THEN CategoryFromDomainModelParent(parent)
                                 ELSE COALESCE(NULLIF(CategoryFromDomainModelParent(parent), Nil), @)]
     ELSE r : r \in tbl}
\* SELECT * FROM category WHERE UUID = UUID_TO_BIN(?)
CategoryAdapterFind(tbl, uuid) == {r \in tbl : r.ID = MustParse(uuid)}
\* sql.ErrNoRows, returned by GetContext when no row matches
ErrNoRows == <<"sql: no rows in result set">>
\* CategoryDB.ToDomainModel sets Parent to a non-nil pointer whose ID is
\* db.ParentID.String() of a uuid.UUID in category.go:130-139 and
\* db.ParentID.String of a sql.NullString in part_016:252-261; part_008:148-158
CategoryResponse(r) ==
    [ID |-> r.ID, Name |-> r.Name, Description |-> r.Description,
     ParentID |-> IF r.ParentID # Null THEN r.ParentID
                  ELSE IF revision = "part_016" THEN "" ELSE Nil]

\* part_008:55-78: categoryApi.Create
CategoryCreate(name, description, parentID, fail) ==
    /\ nextCategory < Len(CategoryUUIDs)
    /\ IF Len(createCategoryRequestValidation(name, description)) > 0
       THEN /\ call' = Call("CategoryCreate", "", name, description, parentID,
                        ApiRejected(createCategoryRequestValidation(name, description)), {})
            /\ UNCHANGED <<category, nextCategory, asked>>
       ELSE /\ nextCategory' = nextCategory + 1
            /\ IF CategoryFromDomainModelPanics(CategoryUUIDs[nextCategory + 1], CreateParent(parentID))
               THEN /\ call' = Call("CategoryCreate", "", name, description, parentID,
                                ApiPanicked(ErrInvalidUUID, "create"), {})
                    /\ UNCHANGED <<category, asked>>
               ELSE IF fail
               THEN /\ call' = Call("CategoryCreate", "", name, description, parentID,
                                ApiFailed(Wrap("error occurred while creating category",
                                               StoreErr(ErrDriver)), "create"), {})
                    /\ UNCHANGED <<category, asked>>
               ELSE /\ category' = CategoryAdapterCreate(category, CategoryUUIDs[nextCategory + 1],
                                        name, description, CreateParent(parentID))
                    /\ asked' = asked \cup {[ID |-> CategoryUUIDs[nextCategory + 1], ParentID |-> parentID]}
                    /\ call' = Call("CategoryCreate", CategoryUUIDs[nextCategory + 1], name,
                                    description, parentID, ApiOk, {})
    /\ UNCHANGED <<wall_block, block, nextUUID, scope, wvars, fbvars, tvars, wall, program, nextWall,
                   revision>>

\* part_008:93-127: categoryApi.Update
CategoryUpdate(uuid, name, description, parentID, fail) ==
    /\ IF Len(updateCategoryRequestValidation(uuid)) > 0
       THEN /\ call' = Call("CategoryUpdate", uuid, name, description, parentID,
                        ApiRejected(updateCategoryRequestValidation(uuid)), {})
            /\ UNCHANGED <<category, asked>>
       ELSE IF CategoryFromDomainModelPanics(uuid, UpdateParent(parentID))
       THEN /\ call' = Call("CategoryUpdate", uuid, name, description, parentID,
                        ApiPanicked(IF CategoryFromDomainModelNilDeref(UpdateParent(parentID))
                                    THEN ErrNilDeref ELSE ErrInvalidUUID, "update"), {})
            /\ UNCHANGED <<category, asked>>
       ELSE IF fail
       THEN /\ call' = Call("CategoryUpdate", uuid, name, description, parentID,
                        ApiFailed(Wrap("error occurred while updating category",
                                       StoreErr(ErrDriver)), "update"), {})
            /\ UNCHANGED <<category, asked>>
       ELSE /\ category' = CategoryAdapterUpdate(category, uuid, name, description, UpdateParent(parentID))
            /\ asked' = {a \in asked : a.ID # MustParse(uuid)}
            /\ call' = Call("CategoryUpdate", uuid, name, description, parentID, ApiOk, {})
    /\ UNCHANGED <<wall_block, block, nextUUID, scope, wvars, fbvars, tvars, wall, program, nextWall,
                   nextCategory, revision>>

\* part_008:139-161: categoryApi.Find
CategoryFind(uuid, fail) ==
    /\ call' =
         IF fail \/ ~IsUUID(uuid)
         THEN Call("CategoryFind", uuid, "", "", "",
                  ApiFailed(Wrap("error occurred while finding category",
                                 StoreErr(IF fail THEN ErrDriver ELSE ErrUUIDToBin)), "find"), {})
         ELSE IF CategoryAdapterFind(category, uuid) = {}
         THEN Call("CategoryFind", uuid, "", "", "",
                  ApiFailed(Wrap("error occurred while finding category", StoreErr(ErrNoRows)), "find"), {})
         ELSE Call("CategoryFind", uuid, "", "", "", ApiOk,
                  {CategoryResponse(r) : r \in CategoryAdapterFind(category, uuid)})
    /\ UNCHANGED <<wall_block, block, nextUUID, scope, wvars, fbvars, tvars, wall, program, nextWall, cvars>>

NextCategory ==
    \/ \E r \in CreateStrs, parentID \in CategoryStrs, fail \in BOOLEAN :
          CategoryCreate(r.name, r.description, parentID, fail)
    \/ \E uuid \in CategoryStrs, r \in UpdateStrs, parentID \in CategoryStrs, fail \in BOOLEAN :
          CategoryUpdate(uuid, r.name, r.description, parentID, fail)
    \/ \E uuid \in CategoryStrs, fail \in BOOLEAN : CategoryFind(uuid, fail)

Next ==
    \/ \E p \in Writers, w \in scope.walls, d \in Requests, fail \in BOOLEAN :
          OverwriteBlocksFetch(p, w, d, fail)
    \/ \E p \in Writers, fail \in BOOLEAN : \E a \in associations[p] :
          OverwriteBlocksDelete(p, a, fail)
    \/ \E p \in Writers, fail \in BOOLEAN : \E b \in toCreate[p] :
          OverwriteBlocksCreate(p, b, fail)
    \/ \E u \in scope.walls, fail \in BOOLEAN : FindBlocksFetch(u, fail)
    \/ \E fail \in BOOLEAN : \E a \in fb_associations : FindBlocksResolve(a, fail)
    \/ \E u \in BlockUUIDs : BlockDelete(u)

\* the steps of the writers and of the block table alone
NextWrite ==
    \/ \E p \in Writers, w \in scope.walls, d \in Requests, fail \in BOOLEAN :
          OverwriteBlocksFetch(p, w, d, fail)
    \/ \E p \in Writers, fail \in BOOLEAN : \E a \in associations[p] :
          OverwriteBlocksDelete(p, a, fail)
    \/ \E p \in Writers, fail \in BOOLEAN : \E b \in toCreate[p] :
          OverwriteBlocksCreate(p, b, fail)
    \/ \E u \in BlockUUIDs : BlockDelete(u)

\* the steps of one writer, of the wall service and of the block table
NextDelete ==
    \/ \E p \in Writers, w \in scope.walls, d \in Requests, fail \in BOOLEAN :
          OverwriteBlocksFetch(p, w, d, fail)
    \/ \E p \in Writers, fail \in BOOLEAN : \E a \in associations[p] :
          OverwriteBlocksDelete(p, a, fail)
    \/ \E p \in Writers, fail \in BOOLEAN : \E b \in toCreate[p] :
          OverwriteBlocksCreate(p, b, fail)
    \/ \E fail \in BOOLEAN : WallCreate("X", "d", fail)
    \/ \E uuid \in WallIDStrs, fail \in BOOLEAN : WallDelete(uuid, fail)
    \/ \E u \in BlockUUIDs : BlockDelete(u)

\* the steps of the writers alone
NextWalls ==
    \/ \E p \in Writers, w \in scope.walls, d \in Requests, fail \in BOOLEAN :
          OverwriteBlocksFetch(p, w, d, fail)
    \/ \E p \in Writers, fail \in BOOLEAN : \E a \in associations[p] :
          OverwriteBlocksDelete(p, a, fail)
    \/ \E p \in Writers, fail \in BOOLEAN : \E b \in toCreate[p] :
          OverwriteBlocksCreate(p, b, fail)

\* a store call may fail only while the caller has a call left after the
\* one the failure ends (n = calls left once this step is taken)
MayFail(fail, n) == fail => n > 0
\* the steps of a caller that repeats a failed Overwrite call with the same
\* arguments, and of the rows it had before: the first call, a repetition,
\* and the two loops
NextRetry ==
    \/ \E p \in Writers, w \in scope.walls, d \in Requests, fail \in BOOLEAN :
          /\ pc[p] = "idle" \/ ret[p].kind = "ok"
          /\ MayFail(fail, budget[p] - 1)
          /\ OverwriteBlocksFetch(p, w, d, fail)
    \/ \E p \in Writers, fail \in BOOLEAN :
          /\ pc[p] = "done" /\ ret[p].kind = "err"
          /\ MayFail(fail, budget[p] - 1)
          /\ OverwriteBlocksFetch(p, wallID[p], req[p], fail)
    \/ \E p \in Writers, fail \in BOOLEAN : \E a \in associations[p] :
          MayFail(fail, budget[p]) /\ OverwriteBlocksDelete(p, a, fail)
    \/ \E p \in Writers, fail \in BOOLEAN : \E b \in toCreate[p] :
          MayFail(fail, budget[p]) /\ OverwriteBlocksCreate(p, b, fail)

Spec == Init /\ [][Next]_vars
SpecWrite == Init /\ [][NextWrite]_vars
SpecConc == InitConc /\ [][Next]_vars
SpecIDs == InitIDs /\ [][Next]_vars
SpecTags == InitTags /\ [][NextTags]_vars
SpecEntity == InitEntity /\ [][NextEntity]_vars
SpecCategory == InitCategory /\ [][NextCategory]_vars
SpecDelete == InitDelete /\ [][NextDelete]_vars
SpecRead == InitRead /\ [][Next]_vars
SpecWalls == InitWalls /\ [][NextWalls]_vars
\* a running call takes its next step and the caller repeats a failed call
SpecRetry == InitRetry /\ [][NextRetry]_vars /\ WF_vars(NextRetry)

(* ------------------------------ properties ---------------------------- *)
\* number of keys of map d that spell block u and carry position pos
Want(d, u, pos) ==
    Cardinality({k \in DOMAIN d : IsUUID(k) /\ MustParse(k) = u /\ d[k] = pos})
\* the response has one entry per (child, position) pair of d and no other
ResponseIs(response, d) ==
    /\ Len(response) = Cardinality(DOMAIN d)
    /\ \A u \in BlockUUIDs, pos \in Positions :
          Cardinality({i \in 1..Len(response) :
              response[i].ID = u /\ response[i].Position = pos}) = Want(d, u, pos)
\* the rows of wall w are one per (child, position) pair of d and no other
RowsAre(w, d) ==
    /\ Cardinality(FindByWallID(w)) = Cardinality(DOMAIN d)
    /\ \A u \in BlockUUIDs, pos \in Positions :
          Cardinality({r \in FindByWallID(w) : r.BlockID = u /\ r.Position = pos}) = Want(d, u, pos)
Returned(p) == pc[p] = "done"
Succeeded(p) == pc[p] = "done" /\ ret[p].kind = "ok"
FindBlocksOk == fb_pc = "done" /\ fb_ret.kind = "ok"

\* C1 (completeness): a FindBlocks(P) whose fetch follows an Overwrite(P, D)
\* that returned success with no concurrent call on P returns exactly |D|
\* entries, one per (child, position) pair of D; children of the old set that
\* are not in D do not appear.
C1_Completeness ==
    (FindBlocksOk /\ fb_after.valid) => ResponseIs(fb_response, fb_after.req)
\* a read of two entries after the second of two calls that each created two rows
C1_Witness ==
    /\ FindBlocksOk /\ fb_after.valid
    /\ Len(fb_response) = 2
    /\ nextUUID = 4

\* C2 (per-parent serialization): when two Overwrite calls on the same wall
\* have both returned success, the rows of the wall are the desired set of one
\* of them, never a mixture, a union or a set with a duplicated child.
C2_Serialized ==
    \A p, q \in Writers :
        (p # q /\ Succeeded(p) /\ Succeeded(q) /\ SameWall(p, wallID[q]))
            => (RowsAre(wallID[p], req[p]) \/ RowsAre(wallID[q], req[q]))

\* C3 (idempotence): Overwrite(P, D) issued twice in sequence, both
\* successful and undisturbed, leaves exactly D after the first and after the
\* second call, as rows and as read by FindBlocks, and no row of the second
\* call carries a row ID of the first.
C3_Idempotence ==
    /\ (FindBlocksOk /\ fb_after.valid) => ResponseIs(fb_response, fb_after.req)
    /\ \A p \in Writers :
          (Succeeded(p) /\ isolated[p]) =>
              /\ RowsAre(wallID[p], req[p])
              /\ Again(p) => {r.ID : r \in FindByWallID(wallID[p])} \cap prev[p].made = {}
\* a read of two entries after the repeated call, whose rows replaced the first call's rows
C3_Witness ==
    /\ FindBlocksOk /\ fb_after.valid /\ fb_after.again
    /\ Len(fb_response) = 2
    /\ \E p \in Writers :
          Succeeded(p) /\ Again(p) /\ Cardinality(prev[p].made) = 2 /\ Cardinality(made[p]) = 2

\* C4 (uniqueness): in every reachable state, for a fixed wall each block
\* appears in at most one wall_block row.
C4_UniqueChild ==
    \A r1, r2 \in wall_block :
        (r1.WallID = r2.WallID /\ r1.BlockID = r2.BlockID) => r1 = r2

\* C5 (no rollback): a store call that fails inside Overwrite(P, D) makes the
\* call return an error and changes no row; the rows of P are then the
\* fetched rows not yet deleted plus the rows of D created before the failure.
C5_Kept ==
    \A p \in Writers :
        (Returned(p) /\ ret[p].kind = "err" /\ isolated[p] /\ ret[p].step \in {"delete", "create"})
            => FindByWallID(wallID[p]) = (associations[p] \ deleted[p]) \cup made[p]
C5_FailingCallChangesNothing ==
    \A p \in Writers :
        (ret'[p].kind = "err" /\ ret'[p] # ret[p]) => wall_block' = wall_block
C5_PartialFailure == []C5_Kept /\ [][C5_FailingCallChangesNothing]_vars
\* a create failed after old rows were deleted and part of D was created
C5_Witness ==
    \E p \in Writers :
        /\ Returned(p) /\ ret[p].kind = "err" /\ ret[p].step = "create"
        /\ deleted[p] # {} /\ made[p] # {} /\ toCreate[p] # {}
        /\ FindByWallID(wallID[p]) = made[p]

\* C6 (failed step is identified): an error Overwrite returns because a store
\* call failed is wrapped with operation context, and errors of different
\* steps (fetch, delete, create) differ.
C6_ErrorNamesStep ==
    \A p \in Writers :
        (Returned(p) /\ ret[p].kind = "err") =>
            /\ Len(ret[p].err) >= 2
            /\ \A q \in Writers :
                  (Returned(q) /\ ret[q].kind = "err" /\ ret[q].step # ret[p].step)
                      => ret[q].err # ret[p].err

\* C7 (dangling child is reported): when FindBlocks stops at the resolution
\* of a child while a fetched row references a block that is not in the block
\* table, it has returned an error; it has not crashed.
C7_DanglingReported ==
    \A a \in fb_associations \ fb_resolved :
        (fb_pc = "done" /\ fb_ret.step = "find" /\ BlockFind(a.BlockID) = {})
            => fb_ret.kind = "err"

\* C8 (no child validation): an undisturbed Overwrite(P, D) that met no store
\* failure succeeds and leaves one row per entry of D whether or not the
\* blocks exist; a call ends otherwise only on a store failure or a string
\* that is no UUID; no step of Overwrite changes the block table.
C8_Stored ==
    \A p \in Writers :
        /\ (Succeeded(p) /\ isolated[p]) => RowsAre(wallID[p], req[p])
        /\ (Returned(p) /\ ret[p].kind = "err") =>
              ret[p].err \in {ErrDriver, ErrUUIDToBin,
                              Errorf("error occurred while creating wall block", ErrDriver)}
        /\ (Returned(p) /\ ret[p].kind = "panic") =>
              (~IsUUID(wallID[p]) \/ \E k \in DOMAIN req[p] : ~IsUUID(k))
C8_NoEntityStoreWrite == (wvars' # wvars) => block' = block
C8_NoChildValidation == []C8_Stored /\ [][C8_NoEntityStoreWrite]_vars
\* a successful call whose two rows reference blocks that are not in the block table
C8_Witness ==
    \E p \in Writers :
        /\ Succeeded(p) /\ isolated[p]
        /\ Cardinality(made[p]) = 2
        /\ made[p] \subseteq wall_block
        /\ \A r \in made[p] : BlockFind(r.BlockID) = {}

\* C9 (all or nothing): FindBlocks returns a nil slice with every error, from
\* the fetch or from the resolution of a child, and a successful return holds
\* one entry per fetched row.
C9_AllOrNothing ==
    /\ fb_ret.kind = "err" => fb_response = <<>>
    /\ FindBlocksOk => Len(fb_response) = Cardinality(fb_associations)
    /\ fb_pc = "resolve" => fb_ret.kind = "none"
\* the resolution of the second child failed after the first was resolved
C9_Witness ==
    /\ fb_pc = "done" /\ fb_ret.kind = "err" /\ fb_ret.step = "find"
    /\ fb_resolved # {}
    /\ fb_response = <<>>

\* C10 (parent ID validated): Overwrite with an empty wall ID returns a
\* validation error and issues no association-store call.
C10_ParentValidated ==
    \A p \in Writers :
        (Returned(p) /\ wallID[p] = "") =>
            /\ issued[p] = {}
            /\ ret[p].kind = "err" /\ ret[p].step = "validation"

\* C11 (unordered relations are sets): after a successful, undisturbed
\* OverwriteTags(P, tagIDs), each tag appears in at most one program_tag row
\* of P and the tags of P are the IDs of the input list.
C11_SetSemantics ==
    (tg_pc = "done" /\ tg_ret.kind = "ok" /\ tg_isolated) =>
        /\ \A r1, r2 \in FindByProgramID(tg_programID) : r1.TagID = r2.TagID => r1 = r2
        /\ {r.TagID : r \in FindByProgramID(tg_programID)}
              = {MustParse(tg_tagIDs[i]) : i \in 1..Len(tg_tagIDs)}

\* the strings of an error's message that name field f
Names(e, f) == {i \in 1..Len(e.chain) : e.chain[i] = f}

\* C12 (partial update preserves untouched fields): for every entity type,
\* Update(id, {name: "", description: d}) with d non-empty on a stored entity
\* that meets no store failure succeeds, leaves the name as it was and sets
\* the description to d.
C12_Step ==
    (/\ call'.seq # call.seq
     /\ call'.op \in {"WallUpdate", "ProgramUpdate"}
     /\ call'.name = "" /\ call'.description # ""
     /\ \E r \in wall \cup program : r.ID = call'.id
     /\ ~(call'.ret.kind = "err" /\ call'.ret.step = "update"))
        => /\ call'.ret.kind = "ok"
           /\ \A r \in wall \cup program :
                 r.ID = call'.id =>
                     [r EXCEPT !.Description = call'.description] \in wall' \cup program'
C12_PartialUpdate == [][C12_Step]_vars

\* C13 (validation aggregation): wallApi.Create is rejected with a validation
\* error if and only if name or description is empty, and that one error
\* reports exactly the empty fields, both when both are empty.
C13_ValidationAggregation ==
    call.op = "WallCreate" =>
        /\ (call.ret.step = "validation") <=> (call.name = "" \/ call.description = "")
        /\ call.ret.step = "validation" =>
              /\ call.ret.kind = "err"
              /\ (Names(call.ret.err, "name") # {}) <=> (call.name = "")
              /\ (Names(call.ret.err, "description") # {}) <=> (call.description = "")
              /\ Len(call.ret.err.vErrs) =
                    Cardinality({f \in {"name", "description"} : Names(call.ret.err, f) # {}})
\* a Create with both fields empty was rejected with an error naming both
C13_Witness ==
    /\ call.op = "WallCreate" /\ call.name = "" /\ call.description = ""
    /\ call.ret.kind = "err" /\ call.ret.step = "validation"
    /\ Names(call.ret.err, "name") # {} /\ Names(call.ret.err, "description") # {}

\* C14 (error kinds stay distinguishable): an error returned because
\* validation failed carries the ValidationErrors type, found by unwrapping;
\* no error returned because a store call failed, and no other result, does.
C14_ErrorKinds ==
    /\ call.ret.step = "validation" =>
          (call.ret.kind = "err" /\ AsValidationErrors(call.ret.err))
    /\ (call.ret.kind = "err" /\ call.ret.step # "validation") =>
          ~AsValidationErrors(call.ret.err)
    /\ call.ret.kind \in {"ok", "panic"} => ~AsValidationErrors(call.ret.err)
\* an Update with an empty uuid was rejected with a wrapped ValidationErrors
C14_Witness ==
    /\ call.op = "WallUpdate" /\ call.id = ""
    /\ call.ret.kind = "err" /\ call.ret.step = "validation"
    /\ Len(call.ret.err.chain) = 3
    /\ AsValidationErrors(call.ret.err)

\* C15 (category parent round trip): Find of a category returns, as the parent
\* ID, the parent ID its Create was given, as long as no Update of the category
\* came between: P for a category created with parent P, and the empty
\* string, not a zero-value ID, for a category created with no parent.
C15_ParentRoundTrip ==
    \A a \in asked :
        (call.op = "CategoryFind" /\ call.ret.kind = "ok" /\ call.id = a.ID)
            => \A r \in call.response : r.ParentID = a.ParentID

\* C16 (no zero-value parent is ever stored): in every state reached by
\* Category Create and Update calls, no row of table category has the
\* all-zero UUID as its parent.
C16_NoZeroParent == \A r \in category : r.ParentID # Nil

\* C17 (Update with an empty parent ID): categoryApi.Update(id, {name,
\* description, parentID: ""}) that meets no store failure succeeds, replaces
\* the name and the description of the row of that ID where they are supplied
\* and leaves its parent, and every other row, as they were; with a store
\* failure it returns the error and changes nothing.
C17_Step ==
    (call'.seq # call.seq /\ call'.op = "CategoryUpdate" /\ call'.parentID = "" /\ call'.id # "") =>
        IF call'.ret.kind = "ok"
        THEN category' =
               {IF r.ID = call'.id
                THEN [r EXCEPT !.Name = IF call'.name # "" THEN call'.name ELSE @,
                               !.Description = IF call'.description # "" THEN call'.description ELSE @]
                ELSE r : r \in category}
        ELSE call'.ret.kind = "err" /\ call'.ret.step = "update" /\ category' = category
C17_UpdateEmptyParent == [][C17_Step]_vars

\* C18 (category parents are unchecked weak references): a Category Create or
\* Update that supplies a parent UUID, passes validation and meets no store
\* failure succeeds and stores that UUID as the parent, whether or not a
\* category of that ID exists and whether or not the new link closes a cycle.
C18_UncheckedParent ==
    (/\ call.op \in {"CategoryCreate", "CategoryUpdate"}
     /\ call.parentID # "" /\ IsUUID(call.parentID)
     /\ call.ret.step \notin {"validation", "create", "update"})
        => /\ call.ret.kind = "ok"
           /\ \A r \in category : r.ID = call.id => r.ParentID = call.parentID
           /\ call.op = "CategoryCreate" => \E r \in category : r.ID = call.id
\* c2 was created with the parent c9, the ID of no category (a dangling
\* parent), and Update(c1, parent c1) made c1 its own parent (a cycle)
C18_Witness ==
    /\ call.op = "CategoryUpdate" /\ call.ret.kind = "ok" /\ call.id = "c1" /\ call.parentID = "c1"
    /\ \E r \in category : r.ID = "c1" /\ r.ParentID = "c1"
    /\ \E r \in category : r.ID = "c2" /\ r.ParentID = "c9"
    /\ \A r \in category : r.ID # "c9"

\* C19 (Find of a missing entity signals NotFound): wallApi.Find with a UUID
\* that no wall row carries returns an error; it does not succeed and it does
\* not crash.
C19_FindNotFound ==
    (call.op = "WallFind" /\ IsUUID(call.id) /\ WallAdapterFind(wall, call.id) = {})
        => call.ret.kind = "err"

\* C20 (association Delete is idempotent): programTagAdapter.Delete(id) that
\* meets no store failure returns no error and removes the row with that ID
\* and no other row, so a call with an ID that is not in the table changes
\* nothing; with a store failure it returns the error and changes nothing.
C20_DeleteStep ==
    (pt_del'.n # pt_del.n) =>
        IF pt_del'.ret.kind = "ok"
        THEN /\ program_tag' \subseteq program_tag
             /\ program_tag \ program_tag' = {r \in program_tag : r.ID = pt_del'.id}
             /\ (pt_del.ret.kind = "ok" /\ pt_del.id = pt_del'.id) => program_tag' = program_tag
        ELSE pt_del'.ret.kind = "err" /\ program_tag' = program_tag
C20_DeleteIdempotent == [][C20_DeleteStep]_vars
\* Delete removed one of two rows, and was then repeated with the same ID
C20_Witness ==
    /\ pt_del.n = 2 /\ pt_del.ret.kind = "ok"
    /\ Cardinality(program_tag) = 1
    /\ tg_pc = "done" /\ tg_ret.kind = "ok" /\ Len(tg_tagIDs) = 2 /\ ~tg_isolated
    /\ \A r \in program_tag : r.ID # pt_del.id

\* C21 (no cascading delete): wallApi.Delete that meets no store failure
\* removes the wall row of that ID and no other wall row, with a store failure
\* it removes nothing, and in both cases every wall_block row stays, the rows
\* of the deleted wall included; blockApi.Delete leaves every wall_block row
\* in place as well.
C21_Step ==
    /\ (call'.seq # call.seq /\ call'.op = "WallDelete") =>
          /\ wall_block' = wall_block
          /\ block' = block
          /\ IF call'.ret.kind = "ok"
             THEN wall' = {r \in wall : r.ID # call'.id}
             ELSE call'.ret.kind = "err" /\ wall' = wall
    /\ block' # block => wall_block' = wall_block
C21_NoCascade == [][C21_Step]_vars
\* wall w1 was deleted while wall w2 exists, and a wall_block row of w1 is
\* still stored
C21_Witness ==
    /\ call.op = "WallDelete" /\ call.ret.kind = "ok" /\ call.id = "w1"
    /\ {r.ID : r \in wall} = {"w2"}
    /\ \E r \in wall_block : r.WallID = "w1"

\* C22 (full replace, not diff): after a successful OverwriteBlocks(P, D) no
\* wall_block row of P carries the ID of a row the call fetched, that is of a
\* row P held before the call; a block that is in the old set and in D has a
\* row under a new ID.
C22_FullReplace ==
    \A p \in Writers :
        Succeeded(p) =>
            {r.ID : r \in FindByWallID(wallID[p])} \cap {a.ID : a \in associations[p]} = {}
\* block b1 was in the old set and in D: its fetched row is gone and its new
\* row carries another ID
C22_Witness ==
    \E p \in Writers :
        /\ Succeeded(p)
        /\ \E a \in associations[p], r \in made[p] :
              /\ a.BlockID = "b1" /\ r.BlockID = "b1" /\ a.ID # r.ID
              /\ r \in wall_block /\ a \notin wall_block

\* C23 (step ordering inside one Overwrite call): the fetch is the first store
\* call; while the delete loop runs no row has been created; when the create
\* loop is reached every fetched row has been passed by the delete loop; so
\* in a call that no other call on the wall overlaps, the wall has no row
\* when the first Create is issued.
C23_StepOrder ==
    \A p \in Writers :
        /\ issued[p] # {} => "fetch" \in issued[p]
        /\ pc[p] = "delete" => (made[p] = {} /\ "create" \notin issued[p])
        /\ pc[p] = "create" => deleted[p] = associations[p]
        /\ (pc[p] = "create" /\ made[p] = {} /\ isolated[p]) => FindByWallID(wallID[p]) = {}
\* the create loop is about to issue its first Create after the delete loop
\* removed both rows the wall had
C23_Witness ==
    \E p \in Writers :
        /\ pc[p] = "create" /\ made[p] = {} /\ isolated[p]
        /\ Cardinality(associations[p]) = 2 /\ deleted[p] = associations[p]
        /\ FindByWallID(wallID[p]) = {}

\* what call p has done so far; it changes with every step of p
Progress(p) == <<pc[p], budget[p], deleted[p], made[p], issued[p]>>

\* C24 (stop at first failure, no retry): the step of Overwrite in which a
\* store call fails ends the call with an error and changes no row; the call
\* issues no store call after it, so the next step of that caller is a new
\* call; a failed fetch has issued no Delete and no Create, and a failed
\* Delete no Create.
C24_Stopped ==
    \A p \in Writers :
        (Returned(p) /\ ret[p].kind = "err") =>
            /\ ret[p].step = "fetch" => (issued[p] = {"fetch"} /\ deleted[p] = {} /\ made[p] = {})
            /\ ret[p].step = "delete" => (issued[p] = {"fetch", "delete"} /\ made[p] = {})
            /\ ret[p].step = "create" => toCreate[p] # {}
C24_Step ==
    \A p \in Writers :
        /\ (Progress(p)' # Progress(p) /\ ret'[p].kind = "err")
              => (pc'[p] = "done" /\ wall_block' = wall_block)
        /\ (Progress(p)' # Progress(p) /\ pc[p] = "done")
              => (budget'[p] = budget[p] - 1 /\ issued'[p] = {"fetch"})
C24_StopAtFirstFailure == []C24_Stopped /\ [][C24_Step]_vars
\* the second Delete failed after the first removed a row: the call returned
\* with one old row left and no row of D created
C24_Witness ==
    \E p \in Writers :
        /\ Returned(p) /\ ret[p].kind = "err" /\ ret[p].step = "delete"
        /\ Cardinality(deleted[p]) = 1 /\ Cardinality(associations[p]) = 2
        /\ DOMAIN req[p] # {} /\ made[p] = {}
        /\ FindByWallID(wallID[p]) = associations[p] \ deleted[p]

\* C25 (readers see intermediate states): nothing orders the fetch of
\* FindBlocks(P) after an Overwrite(P, D) in progress: a fetch issued while
\* the call is in its delete loop or its create loop returns the rows as they
\* are at that moment, the fetched rows not yet deleted plus the rows
\* created so far, which may be neither the old set nor D.
C25_Step ==
    (fb_budget' # fb_budget /\ fb_ret'.kind # "err") =>
        \A p \in Writers :
            (InProgress(p) /\ isolated[p] /\ SameWall(p, fb_uuid'))
                => fb_associations' = (associations[p] \ deleted[p]) \cup made[p]
C25_IntermediateRead == [][C25_Step]_vars
\* FindBlocks returned one entry: it read wall w1 while the second Overwrite
\* call, which replaced two rows by two rows, had created one of them
C25_Witness ==
    /\ FindBlocksOk /\ Len(fb_response) = 1
    /\ Succeeded("wA") /\ budget["wA"] = 0
    /\ Cardinality(associations["wA"]) = 2 /\ Cardinality(made["wA"]) = 2
    /\ fb_associations \subseteq made["wA"]

\* C27 (Overwrite touches only its own parent): every step of
\* OverwriteBlocks(P, D) adds and removes only wall_block rows of wall P, in
\* every interleaving with calls on other walls; so two calls on different
\* walls that both succeeded, each undisturbed on its own wall, leave each
\* wall with exactly its desired set.
C27_Both ==
    \A p, q \in Writers :
        (/\ p # q /\ Succeeded(p) /\ Succeeded(q)
         /\ ~SameWall(p, wallID[q]) /\ isolated[p] /\ isolated[q])
            => (RowsAre(wallID[p], req[p]) /\ RowsAre(wallID[q], req[q]))
C27_Step ==
    \A p \in Writers :
        Progress(p)' # Progress(p) =>
            \A r \in (wall_block' \ wall_block) \cup (wall_block \ wall_block') :
                r.WallID = MustParse(wallID'[p])
C27_OwnParentOnly == []C27_Both /\ [][C27_Step]_vars
\* the second call of wA replaced the row of wall w1 and the second call of
\* wB the row of wall w2; each wall holds the one row of its last call
C27_Witness ==
    /\ Succeeded("wA") /\ Succeeded("wB") /\ isolated["wA"] /\ isolated["wB"]
    /\ wallID["wA"] = "w1" /\ wallID["wB"] = "w2"
    /\ budget["wA"] = 0 /\ budget["wB"] = 0
    /\ associations["wA"] # {} /\ associations["wB"] # {}
    /\ FindByWallID("w1") = made["wA"] /\ Cardinality(made["wA"]) = 1
    /\ FindByWallID("w2") = made["wB"] /\ Cardinality(made["wB"]) = 1

\* C26 (FindChildren joins position): the fetch of FindBlocks(P) takes the
\* wall_block rows of wall P and of no other wall, and a successful
\* FindBlocks(P) returns exactly one entry per fetched row, each with the
\* fields of the row's block and the position of the row.
C26_Joined ==
    FindBlocksOk =>
        /\ \A a \in fb_associations : a.WallID = MustParse(fb_uuid)
        /\ Len(fb_response) = Cardinality(fb_associations)
        /\ \A u \in BlockUUIDs, pos \in Positions :
              Cardinality({i \in 1..Len(fb_response) :
                  /\ fb_response[i].ID = u /\ fb_response[i].Position = pos
                  /\ fb_response[i].Name = BlockRow(u).Name
                  /\ fb_response[i].Kind = BlockRow(u).Kind
                  /\ fb_response[i].Description = BlockRow(u).Description})
                = Cardinality({a \in fb_associations : a.BlockID = u /\ a.Position = pos})
C26_Fetch ==
    (fb_budget' # fb_budget /\ fb_ret'.kind # "err")
        => fb_associations' = {r \in wall_block : r.WallID = MustParse(fb_uuid')}
C26_JoinsPosition == []C26_Joined /\ [][C26_Fetch]_vars
\* FindBlocks returned the two blocks of its wall at positions 0 and 1 while
\* the other wall holds a row as well
C26_Witness ==
    /\ FindBlocksOk /\ Len(fb_response) = 2
    /\ {fb_response[i].Position : i \in 1..2} = {0, 1}
    /\ {fb_response[i].ID : i \in 1..2} = {"b1", "b2"}
    /\ \E r \in wall_block : r.WallID # MustParse(fb_uuid)

\* C28 (sequential retry converges): with one caller on the wall, an
\* Overwrite(P, D) that succeeds leaves P with exactly D, also when the call
\* before it failed and left a partial set; and when store failures stop, a
\* caller that repeats the failed call reaches a successful call, after which
\* P holds exactly D.
C28_Converged ==
    \A p \in Writers : Succeeded(p) => RowsAre(wallID[p], req[p])
C28_Failed == \E p \in Writers : Returned(p) /\ ret[p].kind = "err"
C28_Holds == \E p \in Writers : Succeeded(p) /\ RowsAre(wallID[p], req[p])
C29_Invalid(c) ==
    \/ c.op \in {"WallCreate", "ProgramCreate"} /\ (c.name = "" \/ c.description = "")
    \/ c.op \in {"WallUpdate", "ProgramUpdate"} /\ c.id = ""
C29_Step ==
    (call'.seq # call.seq) =>
        /\ C29_Invalid(call') =>
              /\ call'.ret.kind = "err" /\ call'.ret.step = "validation"
              /\ AsValidationErrors(call'.ret.err)
        /\ call'.ret.step = "validation" =>
              /\ call'.op \in {"WallCreate", "ProgramCreate", "WallUpdate", "ProgramUpdate"}
              /\ wall' = wall /\ program' = program /\ nextWall' = nextWall
C29_RejectedChangesNothing == [][C29_Step]_vars
\* a program Create with a name and no description was rejected while a wall
\* and the program p1 were stored
C29_Witness ==
    /\ call.op = "ProgramCreate" /\ call.name = "X" /\ call.description = ""
    /\ call.ret.kind = "err" /\ call.ret.step = "validation"
    /\ wall # {} /\ Cardinality(program) = 1
====
